---- MODULE Spec2Model ----
(***************************************************************************)
(* A model of parse.py: splitting registry address ranges into CIDR        *)
(* blocks (split_range), loading the registry dump into the block table    *)
(* (load_networks), and counting the addresses of a list per block         *)
(* (guess_subnets, count_ips).                                             *)
(*                                                                         *)
(* Addresses are Bits wide instead of 32; the prefix lengths the program   *)
(* fixes (MIN_SUBNET_PREFIX = 16, the masks 31 down to 7) are scaled by    *)
(* Bits/32.  A block is [net |-> network address, len |-> prefix length],  *)
(* the identity of an ipaddress.IPv4Network.  A Python dict is a function  *)
(* whose DOMAIN is the set of its keys.                                    *)
(***************************************************************************)
EXTENDS Integers, Sequences, FiniteSets, TLC

\* Width of an address in bits (32 in IPv4).
Bits == 3

RECURSIVE Pow2(_)
Pow2(n) == IF n = 0 THEN 1 ELSE 2 * Pow2(n - 1)

ALL_ONES == Pow2(Bits) - 1
Addrs == 0 .. ALL_ONES

\* MIN_SUBNET_PREFIX = 16 of 32 bits.
MIN_SUBNET_PREFIX == (16 * Bits) \div 32

\* Python's None, where the other values are strings.
None == "None"
\* current_range: None, or a list of blocks.
NoRange == [isNone |-> TRUE, list |-> <<>>]
ListOf(blocks) == [isNone |-> FALSE, list |-> blocks]
\* No block (count_ips found none) and no address (none read yet).
NoBlock == [net |-> -1, len |-> -1]
NoIp == -1

Min(a, b) == IF a <= b THEN a ELSE b

----------------------------------------------------------------------------
\* ipaddress.IPv4Network and the library calls split_range makes.

\* IPv4Network((address, prefix), strict=False): the host bits are masked off.
IPv4Network(ip, prefixlen) ==
    [net |-> ip - (ip % Pow2(Bits - prefixlen)), len |-> prefixlen]

num_addresses(net) == Pow2(Bits - net.len)

\* int.bit_length()
RECURSIVE bit_length(_)
bit_length(n) == IF n = 0 THEN 0 ELSE 1 + bit_length(n \div 2)

\* ipaddress._count_righthand_zero_bits(number, bits)
RECURSIVE TrailingZeros(_)
TrailingZeros(n) == IF n % 2 = 1 THEN 0 ELSE 1 + TrailingZeros(n \div 2)

count_righthand_zero_bits(number, bits) ==
    IF number = 0 THEN bits ELSE Min(bits, TrailingZeros(number))

\* ipaddress.summarize_address_range(first, last), for first <= last: the
\* largest block aligned at first that does not pass last, then the rest.
RECURSIVE summarize_address_range(_, _)
summarize_address_range(first, last) ==
    IF first > last THEN <<>>
    ELSE LET nbits == Min(count_righthand_zero_bits(first, Bits),
                          bit_length(last - first + 1) - 1)
             net   == [net |-> first, len |-> Bits - nbits]
             next  == first + Pow2(nbits)
         IN  IF next - 1 = ALL_ONES THEN <<net>>
             ELSE <<net>> \o summarize_address_range(next, last)

\* IPv4Network.subnets(new_prefix=...): the blocks of that prefix length
\* inside net, in address order.
subnets_of(net, new_prefix) ==
    [i \in 1 .. Pow2(new_prefix - net.len) |->
        [net |-> net.net + (i - 1) * Pow2(Bits - new_prefix), len |-> new_prefix]]

\* One turn of split_range's loop over the summarized blocks.
\* (as it would be without the subdivision of coarse blocks)
SplitStepKeepsCoarse(res, net) == Append(res, net)

split_step(res, net) ==
    IF net.len < MIN_SUBNET_PREFIX
    THEN res \o subnets_of(net, MIN_SUBNET_PREFIX)
    ELSE Append(res, net)

RECURSIVE split_loop(_, _)
split_loop(res, nets) ==
    IF nets = <<>> THEN res
    ELSE split_loop(split_step(res, Head(nets)), Tail(nets))

\* split_range(start_ip, end_ip), for start_ip <= end_ip.
split_range(s, e) == split_loop(<<>>, summarize_address_range(s, e))

Range(seq) == {seq[i] : i \in DOMAIN seq}

----------------------------------------------------------------------------
\* Python dicts.

EmptyDict == [k \in {} |-> None]

\* d[k] = v
Put(d, k, v) == [x \in (DOMAIN d) \cup {k} |-> IF x = k THEN v ELSE d[x]]

\* data[cidr][key] = value on the defaultdict(dict) data: the entry is
\* created when the key is new.
SetField(data, cidr, key, value) ==
    Put(data, cidr,
        Put(IF cidr \in DOMAIN data THEN data[cidr] ELSE EmptyDict, key, value))

\* for cidr in current_range: data[cidr][key] = value
\* (first as it would be if only the first block were written)
SetFieldFirst(data, range, key, value) ==
    IF range = <<>> THEN data ELSE SetField(data, Head(range), key, value)

RECURSIVE SetFieldAll(_, _, _, _)
SetFieldAll(data, range, key, value) ==
    IF range = <<>> THEN data
    ELSE SetFieldAll(SetField(data, Head(range), key, value), Tail(range), key, value)

RECURSIVE SumAddresses(_)
SumAddresses(range) ==
    IF range = <<>> THEN 0
    ELSE num_addresses(Head(range)) + SumAddresses(Tail(range))

\* str(cidr): "<network address>/<prefix length>"
StrOfNetwork(cidr) == <<cidr.net, "/", cidr.len>>

----------------------------------------------------------------------------
\* load_networks: the loop over the lines of the dump.
\* A line is [kind |-> "comment"] (starts with #), [kind |-> "blank"], or
\* [kind |-> "kv", key |-> k, value |-> v] ("k: v").  The value of an inetnum
\* line is <<start, end>>, the two addresses of "<start> - <end>".
\* The loader's state is [data, current_range, prev_key, error]; error names
\* the exception that ended the run.

KEYS == {"inetnum", "netname", "country", "descr"}

LoaderInit ==
    [data |-> EmptyDict, current_range |-> NoRange, prev_key |-> None, error |-> None]

\* "not (cidr in data and data[cidr]['num_addr_orig'] < num_addr)"
\* (as it would be with <= and with > for <)
KeepsUnlessNotLarger(data, cidr, num_addr) ==
    ~(cidr \in DOMAIN data /\ data[cidr]["num_addr_orig"] <= num_addr)

KeepsUnlessLarger(data, cidr, num_addr) ==
    ~(cidr \in DOMAIN data /\ data[cidr]["num_addr_orig"] > num_addr)

more_specific_kept(data, cidr, num_addr) ==
    ~(cidr \in DOMAIN data /\ data[cidr]["num_addr_orig"] < num_addr)

\* [cidr for cidr in current_range if not (cidr in data and ... < num_addr)]
RECURSIVE keep_most_specific(_, _, _)
keep_most_specific(range, data, num_addr) ==
    IF range = <<>> THEN <<>>
    ELSE (IF more_specific_kept(data, Head(range), num_addr)
          THEN <<Head(range)>> ELSE <<>>)
         \o keep_most_specific(Tail(range), data, num_addr)

\* for cidr in current_range: data[cidr]["cidr"] = str(cidr);
\*                            data[cidr]["num_addr_orig"] = num_addr
RECURSIVE write_range(_, _, _)
write_range(data, range, num_addr) ==
    IF range = <<>> THEN data
    ELSE write_range(
            SetField(SetField(data, Head(range), "cidr", StrOfNetwork(Head(range))),
                     Head(range), "num_addr_orig", num_addr),
            Tail(range), num_addr)

\* The body of "if key == 'inetnum':".
inetnum_branch(st, value) ==
    IF value[1] > value[2]
    THEN [st EXCEPT !.error = "ValueError"]
    ELSE LET split    == split_range(value[1], value[2])
             num_addr == SumAddresses(split)
             range    == keep_most_specific(split, st.data, num_addr)
         IN  [st EXCEPT !.data = write_range(st.data, range, num_addr),
                        !.current_range = ListOf(range)]

\* "if key == 'descr' and prev_key == 'descr': continue"
skips_descr(st, key) == key = "descr" /\ st.prev_key = "descr"

\* One turn of the loop "for line in lines".
load_line(st, line) ==
    IF line.kind = "comment" THEN st
    ELSE IF line.kind = "blank" THEN [st EXCEPT !.current_range = NoRange]
    ELSE IF line.key \notin KEYS THEN st
    ELSE IF skips_descr(st, line.key) THEN st
    ELSE LET st1 == IF line.key = "inetnum" THEN inetnum_branch(st, line.value)
                    ELSE st
         IN  IF st1.error # None THEN st1
             ELSE IF st1.current_range.isNone
             THEN [st1 EXCEPT !.error = "TypeError"]
             ELSE [st1 EXCEPT
                     !.data = SetFieldAll(st1.data, st1.current_range.list,
                                          line.key, line.value),
                     !.prev_key = line.key]

RECURSIVE load_lines(_, _)
load_lines(st, lines) ==
    IF lines = <<>> \/ st.error # None THEN st
    ELSE load_lines(load_line(st, Head(lines)), Tail(lines))

----------------------------------------------------------------------------
\* load_networks: "remove generic blocks".  A netname is a sequence of
\* characters; a country is a string, compared as a whole.

IANA_BLOCK == <<"I", "A", "N", "A", "-", "B", "L", "O", "C", "K">>
ARIN_CIDR_BLOCK == <<"A", "R", "I", "N", "-", "C", "I", "D", "R", "-", "B", "L", "O", "C", "K">>
RIPE_CIDR_BLOCK == <<"R", "I", "P", "E", "-", "C", "I", "D", "R", "-", "B", "L", "O", "C", "K">>
ERX_NETBLOCK == <<"E", "R", "X", "-", "N", "E", "T", "B", "L", "O", "C", "K">>
IANA_NETBLOCK == <<"I", "A", "N", "A", "-", "N", "E", "T", "B", "L", "O", "C", "K">>
STUB_ == <<"S", "T", "U", "B", "-">>

startswith(s, prefix) ==
    Len(s) >= Len(prefix) /\ SubSeq(s, 1, Len(prefix)) = prefix

\* The condition of the generator expression, for an entry holding the keys
\* it reads (first as it would be without the country test).
KeepsIgnoringCountry(v) ==
    /\ v["netname"] \notin {IANA_BLOCK, ARIN_CIDR_BLOCK, RIPE_CIDR_BLOCK, ERX_NETBLOCK}
    /\ ~startswith(v["netname"], IANA_NETBLOCK)
    /\ ~startswith(v["netname"], STUB_)

not_generic(v) ==
    /\ v["netname"] \notin {IANA_BLOCK, ARIN_CIDR_BLOCK, RIPE_CIDR_BLOCK, ERX_NETBLOCK}
    /\ ~startswith(v["netname"], IANA_NETBLOCK)
    /\ ~startswith(v["netname"], STUB_)
    /\ ~(v["country"] = "ZZ")

\* The entry makes the condition raise KeyError: v["netname"] is read first,
\* v["country"] only when the netname tests all pass ("and" short-circuits).
raises_KeyError(v) ==
    \/ "netname" \notin DOMAIN v
    \/ /\ "country" \notin DOMAIN v
       /\ v["netname"] \notin {IANA_BLOCK, ARIN_CIDR_BLOCK, RIPE_CIDR_BLOCK, ERX_NETBLOCK}
       /\ ~startswith(v["netname"], IANA_NETBLOCK)
       /\ ~startswith(v["netname"], STUB_)

\* data = dict((k, v) for (k, v) in data.items() if ...), when nothing raises.
remove_generic(data) ==
    [k \in {c \in DOMAIN data : not_generic(data[c])} |-> data[k]]

----------------------------------------------------------------------------
\* guess_subnets and count_ips.

IP_COUNT_KEY == "ip_count"

\* The masks guess_subnets tries: range(31, 6, -1), 31 down to 7 of 32 bits.
GuessHigh == Bits - 1
GuessLow  == (7 * Bits + 31) \div 32

\* guess_subnets(ip): the candidates in the order they are yielded.
guess_subnets(ip) ==
    [i \in 1 .. (GuessHigh - GuessLow + 1) |-> IPv4Network(ip, GuessHigh + 1 - i)]

\* The first candidate that is a key of networks ("if subnet in networks"),
\* NoBlock when the loop ends without one.
RECURSIVE first_hit(_, _)
first_hit(guesses, networks) ==
    IF guesses = <<>> THEN NoBlock
    ELSE IF Head(guesses) \in DOMAIN networks THEN Head(guesses)
    ELSE first_hit(Tail(guesses), networks)

\* obj[IP_COUNT_KEY] = obj.get(IP_COUNT_KEY, 0) + 1
\* (first as it would be with a default of 1)
IncrementFromOne(networks, subnet) ==
    [networks EXCEPT ![subnet] =
        Put(@, IP_COUNT_KEY, (IF IP_COUNT_KEY \in DOMAIN @ THEN @[IP_COUNT_KEY] ELSE 1) + 1)]

increment(networks, subnet) ==
    [networks EXCEPT ![subnet] =
        Put(@, IP_COUNT_KEY, (IF IP_COUNT_KEY \in DOMAIN @ THEN @[IP_COUNT_KEY] ELSE 0) + 1)]

\* One turn of count_ips' loop "for ip in lines": the table afterwards
\* (first as it would be if a miss were counted on the table's first block).
CountsMissOnFirstEntry(networks, ip) ==
    LET subnet == first_hit(guess_subnets(ip), networks)
    IN  IF subnet # NoBlock THEN increment(networks, subnet)
        ELSE IF DOMAIN networks = {} THEN networks
        ELSE increment(networks, CHOOSE k \in DOMAIN networks :
                                    \A j \in DOMAIN networks : k.net <= j.net /\
                                        (k.net = j.net => k.len <= j.len))

count_ip(networks, ip) ==
    LET subnet == first_hit(guess_subnets(ip), networks)
    IN  IF subnet = NoBlock THEN networks ELSE increment(networks, subnet)

----------------------------------------------------------------------------
\* Bounds of the model.

\* inetnum lines (range records) of a dump.
MaxRecords == 2
\* The ranges of a dump start at an address in 0 .. MaxStart (and end anywhere).
MaxStart == 1
\* descr lines of one record.
MaxDescr == 2
\* Entries of a table the filter or the counting pass starts from.
MaxEntries == 2
\* Lines of the address list.
MaxIps == 2

\* The ranges of the inetnum lines of a dump, <<start, end>>.
DumpRanges ==
    {r \in Addrs \X Addrs : r[1] <= Min(MaxStart, ALL_ONES) /\ r[1] <= r[2]}

----------------------------------------------------------------------------
\* State.

VARIABLES
    pc,             \* where the program is
    start_ip,       \* split_range: its arguments,
    end_ip,
    subnets,        \*   the summarized blocks not yet visited,
    result,         \*   its result list
    data,           \* load_networks: data; count_ips: networks (the same dict)
    current_range,  \* load_networks: current_range
    prev_key,       \* load_networks: prev_key
    nrec,           \* history: inetnum lines read so far
    recs,           \* history: per inetnum line, its range and the number of
                    \*   netname, country and descr lines read under it
    held,           \* history: the blocks of the last split that the table held
                    \*   for a smaller range when the inetnum line was read
    owner,          \* history: per table key, the inetnum line that last wrote
                    \*   its cidr, num_addr_orig and inetnum
    loaded,         \* history: the table before "remove generic blocks"
    nread,          \* count_ips: lines of the address list read so far
    lastIp,         \* count_ips: ip of the last turn
    lastHit,        \* count_ips: subnet of the last turn when found, else NoBlock
    found           \* history: turns that set found = True

vars == <<pc, start_ip, end_ip, subnets, result, data, current_range, prev_key,
          nrec, recs, held, owner, loaded, nread, lastIp, lastHit, found>>

splitVars == <<start_ip, end_ip, subnets, result>>
loadVars  == <<data, current_range, prev_key>>
histVars  == <<nrec, recs, held, owner>>
countVars == <<nread, lastIp, lastHit, found>>

SplitIdle == start_ip = 0 /\ end_ip = 0 /\ subnets = <<>> /\ result = <<>>
HistIdle  == nrec = 0 /\ recs = <<>> /\ held = {} /\ owner = EmptyDict
CountIdle == nread = 0 /\ lastIp = NoIp /\ lastHit = NoBlock /\ found = 0

----------------------------------------------------------------------------
\* split_range, one loop turn at a time.

SplitInit ==
    /\ pc = "split"
    /\ start_ip \in Addrs
    /\ end_ip \in Addrs
    /\ subnets = <<>>
    /\ result = <<>>
    /\ data = EmptyDict /\ current_range = NoRange /\ prev_key = None
    /\ loaded = EmptyDict
    /\ HistIdle /\ CountIdle

\* subnets = list(ipaddress.summarize_address_range(...)); ValueError when
\* the last address is below the first.
Summarize ==
    /\ pc = "split"
    /\ IF start_ip > end_ip
       THEN pc' = "error" /\ UNCHANGED subnets
       ELSE pc' = "split_loop" /\ subnets' = summarize_address_range(start_ip, end_ip)
    /\ UNCHANGED <<start_ip, end_ip, result, loadVars, histVars, loaded, countVars>>

SplitLoop ==
    /\ pc = "split_loop"
    /\ subnets # <<>>
    /\ result' = split_step(result, Head(subnets))
    /\ subnets' = Tail(subnets)
    /\ UNCHANGED <<pc, start_ip, end_ip, loadVars, histVars, loaded, countVars>>

SplitReturn ==
    /\ pc = "split_loop"
    /\ subnets = <<>>
    /\ pc' = "split_done"
    /\ UNCHANGED <<splitVars, loadVars, histVars, loaded, countVars>>

SplitNext == Summarize \/ SplitLoop \/ SplitReturn

SpecSplit == SplitInit /\ [][SplitNext]_vars

----------------------------------------------------------------------------
\* load_networks, one line of the dump at a time.  The text of the k-th
\* line with a given key under the i-th inetnum line is LineText(i, k): every
\* attribute line has a text of its own, so the table shows which line a
\* stored value came from.

LineText(i, k) == <<i, k>>

St == [data |-> data, current_range |-> current_range, prev_key |-> prev_key,
       error |-> None]

NoLines == [k \in {"netname", "country", "descr"} |-> 0]

LoadInit ==
    /\ pc = "load"
    /\ data = EmptyDict /\ current_range = NoRange /\ prev_key = None
    /\ loaded = EmptyDict
    /\ SplitIdle /\ HistIdle /\ CountIdle

\* The loop turn on line: the loader's variables afterwards.
Turn(line) ==
    LET st == load_line(St, line)
    IN  /\ data' = st.data
        /\ current_range' = st.current_range
        /\ prev_key' = st.prev_key
        /\ pc' = IF st.error = None THEN "load" ELSE "error"

ReadComment ==
    /\ pc = "load"
    /\ Turn([kind |-> "comment"])
    /\ UNCHANGED <<splitVars, histVars, loaded, countVars>>

ReadBlank ==
    /\ pc = "load"
    /\ Turn([kind |-> "blank"])
    /\ UNCHANGED <<splitVars, histVars, loaded, countVars>>

\* A line whose key the loader does not know.
ReadOtherKey ==
    /\ pc = "load"
    /\ Turn([kind |-> "kv", key |-> "admin-c", value |-> "other"])
    /\ UNCHANGED <<splitVars, histVars, loaded, countVars>>

ReadInetnum ==
    /\ pc = "load"
    /\ nrec < MaxRecords
    /\ \E s \in Addrs, e \in Addrs :
          /\ <<s, e>> \in DumpRanges
          /\ Turn([kind |-> "kv", key |-> "inetnum", value |-> <<s, e>>])
          /\ nrec' = nrec + 1
          /\ recs' = Append(recs, [first |-> s, last |-> e, lines |-> NoLines])
          /\ LET split == split_range(s, e)
             IN  held' = {c \in Range(split) :
                            c \in DOMAIN data
                            /\ data[c]["num_addr_orig"] < SumAddresses(split)}
          /\ owner' = [c \in DOMAIN data' |->
                          IF c \in Range(current_range'.list) THEN nrec' ELSE owner[c]]
    /\ UNCHANGED <<splitVars, loaded, countVars>>

\* A netname, country or descr line.  With no inetnum line since the start
\* or the last blank line, current_range is None and the turn raises.
ReadAttr ==
    /\ pc = "load"
    /\ \E key \in {"netname", "country", "descr"} :
          LET n == IF nrec = 0 THEN 0 ELSE recs[nrec].lines[key]
          IN  /\ n < (IF key = "descr" THEN MaxDescr ELSE 1)
              /\ Turn([kind |-> "kv", key |-> key, value |-> LineText(nrec, n + 1)])
              /\ recs' = IF current_range.isNone THEN recs
                         ELSE [recs EXCEPT ![nrec].lines[key] = n + 1]
    /\ UNCHANGED <<splitVars, nrec, held, owner, loaded, countVars>>

\* The loop over the lines ends.
EndOfFile ==
    /\ pc = "load"
    /\ pc' = "loaded"
    /\ UNCHANGED <<splitVars, loadVars, histVars, loaded, countVars>>

LoadNext ==
    ReadComment \/ ReadBlank \/ ReadOtherKey \/ ReadInetnum \/ ReadAttr \/ EndOfFile

SpecLoad == LoadInit /\ [][LoadNext]_vars

----------------------------------------------------------------------------
\* Dumps the filter and the counting pass start from: one complete record
\* per block of a set, the record's range being the block's addresses, so
\* that split_range gives the block back.

EXAMPLE_NET == <<"E", "X", "A", "M", "P", "L", "E", "-", "N", "E", "T">>

\* The netnames of the records: the four generic names, a name with each
\* generic prefix, an ordinary name, a proper prefix of a generic prefix,
\* and a generic name with a suffix.
NETNAMES ==
    {<<"I", "A", "N", "A", "-", "B", "L", "O", "C", "K">>,
     <<"A", "R", "I", "N", "-", "C", "I", "D", "R", "-", "B", "L", "O", "C", "K">>,
     <<"R", "I", "P", "E", "-", "C", "I", "D", "R", "-", "B", "L", "O", "C", "K">>,
     <<"E", "R", "X", "-", "N", "E", "T", "B", "L", "O", "C", "K">>,
     <<"I", "A", "N", "A", "-", "N", "E", "T", "B", "L", "O", "C", "K", "-", "1", "0">>,
     <<"S", "T", "U", "B", "-", "A">>,
     <<"E", "X", "A", "M", "P", "L", "E", "-", "N", "E", "T">>,
     <<"I", "A", "N", "A", "-", "N", "E", "T">>,
     <<"E", "R", "X", "-", "N", "E", "T", "B", "L", "O", "C", "K", "-", "2">>}

COUNTRIES == {"US", "ZZ"}

RECURSIVE SortedBlocks(_)
SortedBlocks(S) ==
    IF S = {} THEN <<>>
    ELSE LET m == CHOOSE b \in S :
                    \A c \in S : b.net < c.net \/ (b.net = c.net /\ b.len <= c.len)
         IN  <<m>> \o SortedBlocks(S \ {m})

\* The lines of the record of block b: inetnum, netname, country (when the
\* record has one), descr, and the blank line that ends it.
RecordLines(b, netname, country) ==
    <<[kind |-> "kv", key |-> "inetnum",
       value |-> <<b.net, b.net + num_addresses(b) - 1>>],
      [kind |-> "kv", key |-> "netname", value |-> netname]>>
    \o (IF country = None THEN <<>>
        ELSE <<[kind |-> "kv", key |-> "country", value |-> country]>>)
    \o <<[kind |-> "kv", key |-> "descr", value |-> "descr"],
         [kind |-> "blank"]>>

RECURSIVE DumpOf(_, _)
DumpOf(blocks, attrs) ==
    IF blocks = <<>> THEN <<>>
    ELSE RecordLines(Head(blocks), attrs[Head(blocks)].netname,
                     attrs[Head(blocks)].country)
         \o DumpOf(Tail(blocks), attrs)

\* The table the loop of load_networks builds from the dump.
LoadedFrom(S, attrs) == load_lines(LoaderInit, DumpOf(SortedBlocks(S), attrs)).data

\* The blocks a table can hold: the blocks of the splits of the dump's
\* ranges, of every prefix length from MIN_SUBNET_PREFIX to Bits.
DumpBlocks == UNION {Range(split_range(r[1], r[2])) : r \in DumpRanges}

SmallSubsets(P) == {S \in SUBSET P : Cardinality(S) <= MaxEntries}

----------------------------------------------------------------------------
\* load_networks, "remove generic blocks".

FilterInit ==
    /\ pc = "filter"
    /\ \E S \in SmallSubsets(Range(split_range(0, ALL_ONES))) :
          \E attrs \in [S -> [netname : NETNAMES, country : COUNTRIES \cup {None}]] :
              data = LoadedFrom(S, attrs)
    /\ loaded = data
    /\ current_range = NoRange /\ prev_key = None
    /\ SplitIdle /\ HistIdle /\ CountIdle

RemoveGeneric ==
    /\ pc = "filter"
    /\ IF \E c \in DOMAIN data : raises_KeyError(data[c])
       THEN pc' = "error" /\ UNCHANGED data
       ELSE pc' = "filtered" /\ data' = remove_generic(data)
    /\ UNCHANGED <<splitVars, current_range, prev_key, histVars, loaded, countVars>>

FilterNext == RemoveGeneric

SpecFilter == FilterInit /\ [][FilterNext]_vars

----------------------------------------------------------------------------
\* count_ips, one line of the address list at a time, on a table that
\* load_networks returned.

Ordinary(S) == [b \in S |-> [netname |-> EXAMPLE_NET, country |-> "US"]]

CountInit ==
    /\ pc = "count"
    /\ \E S \in SmallSubsets(DumpBlocks) :
          data = remove_generic(LoadedFrom(S, Ordinary(S)))
    /\ loaded = EmptyDict
    /\ current_range = NoRange /\ prev_key = None
    /\ SplitIdle /\ HistIdle /\ CountIdle

CountIp ==
    /\ pc = "count"
    /\ nread < MaxIps
    /\ \E ip \in Addrs :
          /\ data' = count_ip(data, ip)
          /\ lastIp' = ip
          /\ lastHit' = first_hit(guess_subnets(ip), data)
    /\ found' = IF lastHit' = NoBlock THEN found ELSE found + 1
    /\ nread' = nread + 1
    /\ UNCHANGED <<pc, splitVars, current_range, prev_key, histVars, loaded>>

\* The loop over the address list ends.
CountEnd ==
    /\ pc = "count"
    /\ pc' = "counted"
    /\ UNCHANGED <<splitVars, loadVars, histVars, loaded, countVars>>

CountNext == CountIp \/ CountEnd

SpecCount == CountInit /\ [][CountNext]_vars

----------------------------------------------------------------------------
\* Properties.

\* The addresses of a block.
Hosts(net) == net.net .. (net.net + num_addresses(net) - 1)

\* The original range size of a record: the addresses from first to last.
RangeSize(r) == r.last - r.first + 1
SplitOf(r) == Range(split_range(r.first, r.last))

\* C1: when split_range returns, its blocks are pairwise disjoint, their
\* addresses together are exactly start_ip .. end_ip, and none has a prefix
\* length below MIN_SUBNET_PREFIX.
C1_SplitIsExactPartition ==
    pc = "split_done" =>
        /\ \A i, j \in DOMAIN result :
              i # j => Hosts(result[i]) \cap Hosts(result[j]) = {}
        /\ UNION {Hosts(result[i]) : i \in DOMAIN result} = start_ip .. end_ip
        /\ \A i \in DOMAIN result : result[i].len >= MIN_SUBNET_PREFIX

\* The whole address space was split: its one block /0 was subdivided.
C1_Witness ==
    /\ pc = "split_done"
    /\ start_ip = 0 /\ end_ip = ALL_ONES
    /\ Len(result) = Pow2(MIN_SUBNET_PREFIX)
    /\ Len(result) > 1

\* The block of the table that contains ip and has the greatest prefix
\* length, NoBlock when no block of the table contains ip.
MostSpecific(ip, table) ==
    LET containing == {b \in DOMAIN table : ip \in Hosts(b)}
    IN  IF containing = {} THEN NoBlock
        ELSE CHOOSE b \in containing : \A c \in containing : c.len <= b.len

\* C2: the block count_ips selects for an address is the most specific block
\* of the table that contains the address, and it selects none only when no
\* block contains the address.
C2_SelectsMostSpecific ==
    nread > 0 => lastHit = MostSpecific(lastIp, data)

\* A record with exactly one netname, one country and one descr line.
CompleteRecord(r) == r.lines = [netname |-> 1, country |-> 1, descr |-> 1]

\* What the table holds for block b when all its fields are those of the
\* i-th record, a complete one.
EntryOfRecord(b, i) ==
    /\ b \in DOMAIN data
    /\ DOMAIN data[b] = {"cidr", "num_addr_orig", "inetnum", "netname", "country", "descr"}
    /\ data[b]["cidr"] = StrOfNetwork(b)
    /\ data[b]["num_addr_orig"] = RangeSize(recs[i])
    /\ data[b]["inetnum"] = <<recs[i].first, recs[i].last>>
    /\ data[b]["netname"] = LineText(i, 1)
    /\ data[b]["country"] = LineText(i, 1)
    /\ data[b]["descr"] = LineText(i, 1)

TwoCompleteRecords ==
    /\ pc = "loaded"
    /\ nrec = 2
    /\ CompleteRecord(recs[1]) /\ CompleteRecord(recs[2])
    /\ RangeSize(recs[1]) # RangeSize(recs[2])

\* C3: after a dump of two complete records of different range sizes, every
\* block that both splits contain holds the fields of the record with the
\* smaller range, whichever of the two came first.
C3_SmallerRangeWins ==
    TwoCompleteRecords =>
        LET small == IF RangeSize(recs[1]) < RangeSize(recs[2]) THEN 1 ELSE 2
        IN  \A b \in SplitOf(recs[1]) \cap SplitOf(recs[2]) : EntryOfRecord(b, small)

\* The record with the smaller range came first and the later, larger one
\* claims one of its blocks.
C3_Witness ==
    /\ TwoCompleteRecords
    /\ RangeSize(recs[1]) < RangeSize(recs[2])
    /\ SplitOf(recs[1]) \cap SplitOf(recs[2]) # {}

\* Whether an existing entry of range size existing makes the line drop the
\* block: as C4 states it (not smaller than the new size), or as amended
\* (smaller).
Dropped(asStated, existing, new) ==
    IF asStated THEN existing >= new ELSE existing < new

\* The turn of an inetnum line: the blocks of its split that were dropped
\* from current_range are those an existing entry makes it drop; the kept
\* ones get the line's cidr, num_addr_orig and inetnum, the dropped ones keep
\* their entry.
InetnumTurn(asStated) ==
    nrec' = nrec + 1 =>
        LET r    == recs'[nrec']
            kept == Range(current_range'.list)
        IN  /\ kept \subseteq SplitOf(r)
            /\ \A c \in SplitOf(r) :
                  /\ c \notin kept <=>
                        (c \in DOMAIN data
                         /\ Dropped(asStated, data[c]["num_addr_orig"], RangeSize(r)))
                  /\ c \in kept =>
                        /\ data'[c]["cidr"] = StrOfNetwork(c)
                        /\ data'[c]["num_addr_orig"] = RangeSize(r)
                        /\ data'[c]["inetnum"] = <<r.first, r.last>>
                  /\ c \notin kept => c \in DOMAIN data /\ data'[c] = data[c]

\* C4 as stated: a block of the split is dropped exactly when the table holds
\* it with an original range size not smaller than the new one.
C4_DropsWhenExistingNotSmaller == [][InetnumTurn(TRUE)]_vars

\* C4 as amended: a block of the split is dropped exactly when the table
\* holds it with an original range size smaller than the new one; otherwise
\* (the block is new, or held for a larger or an equal range) the line's
\* cidr, num_addr_orig and inetnum are written on it.
C4_DropsWhenExistingSmaller == [][InetnumTurn(FALSE)]_vars

\* The second record kept a block the first record held for a range of the
\* same size, and dropped nothing.
C4_Witness ==
    /\ nrec = 2
    /\ ~current_range.isNone
    /\ RangeSize(recs[1]) = RangeSize(recs[2])
    /\ \E b \in SplitOf(recs[1]) \cap SplitOf(recs[2]) : owner[b] = 2
    /\ held = {}

\* The characters of s start with those of p.
HasPrefix(s, p) == \E n \in 0 .. Len(s) : SubSeq(s, 1, n) = p

\* The entries C5 says are retained.
Retained(v) ==
    /\ v["netname"] # IANA_BLOCK
    /\ v["netname"] # ARIN_CIDR_BLOCK
    /\ v["netname"] # RIPE_CIDR_BLOCK
    /\ v["netname"] # ERX_NETBLOCK
    /\ ~HasPrefix(v["netname"], IANA_NETBLOCK)
    /\ ~HasPrefix(v["netname"], STUB_)
    /\ v["country"] # "ZZ"

CompleteTable(table) ==
    \A c \in DOMAIN table : {"netname", "country"} \subseteq DOMAIN table[c]

\* C5: from a table of complete entries the filter returns exactly the
\* entries that are not generic and not of country ZZ, each unchanged.
C5_FilterKeepsExactlyNonGeneric ==
    CompleteTable(loaded) =>
        /\ pc # "error"
        /\ pc = "filtered" =>
              /\ DOMAIN data = {c \in DOMAIN loaded : Retained(loaded[c])}
              /\ \A c \in DOMAIN data : data[c] = loaded[c]

\* An entry with an ordinary netname and country ZZ was removed and another
\* entry was retained.
C5_Witness ==
    /\ pc = "filtered"
    /\ CompleteTable(loaded)
    /\ data # EmptyDict
    /\ \E c \in DOMAIN loaded \ DOMAIN data :
          loaded[c]["netname"] = EXAMPLE_NET /\ loaded[c]["country"] = "ZZ"

\* match_count of an entry: 0 until the first increment.
MatchCount(v) == IF IP_COUNT_KEY \in DOMAIN v THEN v[IP_COUNT_KEY] ELSE 0

RECURSIVE SumMatchCounts(_, _)
SumMatchCounts(table, keys) ==
    IF keys = {} THEN 0
    ELSE LET k == CHOOSE x \in keys : TRUE
         IN  MatchCount(table[k]) + SumMatchCounts(table, keys \ {k})

\* C6: a turn of the counting pass that finds a block adds 1 to the
\* match_count of that block and to no other, the keys of the table and every
\* other attribute stay as they were, and the match_counts sum to the number
\* of addresses found so far.
C6_OneIncrementPerMatch ==
    [][nread' = nread + 1 =>
        /\ DOMAIN data' = DOMAIN data
        /\ \A k \in DOMAIN data :
              /\ DOMAIN data'[k] \ {IP_COUNT_KEY} = DOMAIN data[k] \ {IP_COUNT_KEY}
              /\ \A f \in DOMAIN data[k] \ {IP_COUNT_KEY} : data'[k][f] = data[k][f]
              /\ MatchCount(data'[k]) =
                    MatchCount(data[k]) + (IF k = lastHit' THEN 1 ELSE 0)
        /\ found' = found + (IF lastHit' = NoBlock THEN 0 ELSE 1)
        /\ SumMatchCounts(data', DOMAIN data') = found'
        /\ nread = 0 => SumMatchCounts(data, DOMAIN data) = 0]_vars

\* Two addresses were read, one was found and one was not, in a table of two
\* blocks.
C6_Witness ==
    /\ pc = "counted"
    /\ nread = 2 /\ found = 1
    /\ Cardinality(DOMAIN data) = 2
    /\ \E k \in DOMAIN data : MatchCount(data[k]) = 1

\* C7: a turn on an address that no block of the table contains finds no
\* block and leaves the table as it was.
C7_MissLeavesTableUnchanged ==
    [][(nread' = nread + 1 /\ \A b \in DOMAIN data : lastIp' \notin Hosts(b)) =>
        lastHit' = NoBlock /\ data' = data]_vars

\* An address was read that no block of a table with entries contains.
C7_Witness ==
    /\ nread > 0
    /\ lastHit = NoBlock
    /\ data # EmptyDict
    /\ \A b \in DOMAIN data : lastIp \notin Hosts(b)

\* C8: the descr a block holds is the text of the first descr line of the
\* record that wrote it.
C8_FirstDescrKept ==
    \A b \in DOMAIN data :
        "descr" \in DOMAIN data[b] => data[b]["descr"] = LineText(data[b]["descr"][1], 1)

\* The blocks on which a write of the current record landed: those whose
\* cidr, num_addr_orig and inetnum its inetnum line wrote, and those holding
\* the text of one of its lines with the key.
LandedInetnum == {b \in DOMAIN owner : owner[b] = nrec}
LandedAttr(key) ==
    {b \in DOMAIN data : key \in DOMAIN data[b] /\ data[b][key][1] = nrec}

\* Every write of the current record landed on exactly the blocks of target.
WritesLandOn(target) ==
    /\ LandedInetnum = target
    /\ \A key \in {"netname", "country", "descr"} :
          recs[nrec].lines[key] > 0 => LandedAttr(key) = target

\* C9 as stated: every write of a record lands on exactly the blocks of the
\* record's split.
C9_WritesLandOnSplit ==
    nrec > 0 => WritesLandOn(SplitOf(recs[nrec]))

\* C9 as amended: every write of a record lands on exactly the blocks of the
\* record's split that the table did not hold for a smaller range when the
\* inetnum line was read, the same blocks for every field.
C9_WritesLandOnKeptBlocks ==
    nrec > 0 => WritesLandOn(SplitOf(recs[nrec]) \ held)

\* The second record lost a block to the first, kept another, and its
\* netname, country and descr lines were read.
C9_Witness ==
    /\ nrec = 2
    /\ held # {}
    /\ SplitOf(recs[2]) \ held # {}
    /\ CompleteRecord(recs[2])

\* C10: after the loop, all fields of an entry were written by one record:
\* the netname, country and descr it holds are lines of the record whose
\* inetnum line wrote its cidr, num_addr_orig and inetnum.
C10_SingleProvenance ==
    pc = "loaded" =>
        \A b \in DOMAIN data :
            \A key \in DOMAIN data[b] \cap {"netname", "country", "descr"} :
                data[b][key][1] = owner[b]

====
